---- MODULE Spec2Model ----
(***************************************************************************)
(* A model of src-tauri/src/main.rs of the treadmill application: the     *)
(* FTMS "Treadmill Data" decoder, the control-point command encoder, the  *)
(* duration and pace parsers, the workout compiler and the notification   *)
(* task that decodes every inbound notification.                          *)
(*                                                                         *)
(* The decoder, encoder, parsers and compiler are pure functions of the   *)
(* program; each is an operator here and is applied by one action to an   *)
(* input drawn by the initial state.  Rust values are modelled as         *)
(*   Option<T>      None == << >>,  Some(v) == << v >>                     *)
(*   Result / call  a record with a tag: "Ok", "Err" or "Panic"            *)
(*   &[u8], Vec<T>  a sequence; Rust index i is element i + 1              *)
(*   String, &str   a sequence of one-character strings                    *)
(***************************************************************************)
EXTENDS Integers, Sequences, FiniteSets

VARIABLES
    overflow_checks,  \* build profile: TRUE = integer overflow panics (debug), FALSE = it wraps (release)
    data,             \* decoder: the notification value handed to decode_treadmill_data
    decode_result,    \* decoder: what the call returned, Pending before the call
    command,          \* encoder: the TreadmillCommands value
    message,          \* encoder: Ok(the Vec<u8> returned), Pending before the call
    duration_text,    \* parsers: the &str handed to parse_duration
    pace_raw,         \* parsers: the PaceRaw handed to parse_pace
    duration_result,  \* parsers: outcome of parse_duration
    pace_result,      \* parsers: outcome of parse_pace
    workout_raw,      \* compiler: the WorkoutRaw handed to parse_workout
    workout_result,   \* compiler: outcome of parse_workout
    sub,              \* notification task: notifications queued in the stream, oldest first
    stream_open,      \* notification task: FALSE once the stream has ended
    delivered,        \* notification task: every notification the stream has carried, in order
    outcomes,         \* notification task: the decode outcome printed for each notification taken
    task              \* notification task: "running" or "finished"

vars == << overflow_checks, data, decode_result, command, message, duration_text,
           pace_raw, duration_result, pace_result, workout_raw, workout_result,
           sub, stream_open, delivered, outcomes, task >>

decoder_vars == << data, decode_result >>
encoder_vars == << command, message >>
parser_vars == << duration_text, pace_raw, duration_result, pace_result >>
compiler_vars == << workout_raw, workout_result >>
task_vars == << sub, stream_open, delivered, outcomes, task >>

----------------------------------------------------------------------------
(* Rust values *)

None == << >>
Some(v) == << v >>
Pending == [tag |-> "Pending"]
Panic == [tag |-> "Panic"]
Ok(v) == [tag |-> "Ok", val |-> v]
NotEnoughData == [tag |-> "Err", err |-> "NotEnoughData"]

U8 == 256
U16 == 65536
U24 == 16777216

RECURSIVE Pow2(_)
Pow2(n) == IF n = 0 THEN 1 ELSE 2 * Pow2(n - 1)

\* byte & mask != 0 for a mask with the single bit `mask` set
MaskSet(byte, mask) == (byte \div mask) % 2 = 1

\* data[i] of a slice: the element, and whether the index is inside the slice
InBounds(s, i) == i < Len(s)
At(s, i) == IF InBounds(s, i) THEN s[i + 1] ELSE 0

u16_from_le_bytes(b0, b1) == b0 + U8 * b1
i16_from_le_bytes(b0, b1) ==
    LET u == b0 + U8 * b1 IN IF u >= U16 \div 2 THEN u - U16 ELSE u
u32_from_le_bytes(b0, b1, b2, b3) ==
    \* b3 is 0 at the only call (main.rs:116), so the value stays below 2^24
    b0 + U8 * b1 + U16 * b2 + U24 * b3

----------------------------------------------------------------------------
(* decode_treadmill_data, main.rs:78-239 *)

\* A faulty variant of the flags: the two lowest bits of byte 1 swapped.
TreadmillDataFlagsSwapped(d) ==
    [ more_data                      |-> MaskSet(At(d, 0), 1),
      average_speed                  |-> MaskSet(At(d, 0), 2),
      total_distance                 |-> MaskSet(At(d, 0), 4),
      inclination_and_ramp_angle     |-> MaskSet(At(d, 0), 8),
      elevation_gain                 |-> MaskSet(At(d, 0), 16),
      instantaneous_pace             |-> MaskSet(At(d, 0), 32),
      average_pace                   |-> MaskSet(At(d, 0), 64),
      energy                         |-> MaskSet(At(d, 0), 128),
      heart_rate                     |-> MaskSet(At(d, 1), 2),
      metabolic_equivalent           |-> MaskSet(At(d, 1), 1),
      elapsed_time                   |-> MaskSet(At(d, 1), 4),
      remaining_time                 |-> MaskSet(At(d, 1), 8),
      force_on_belt_and_power_output |-> MaskSet(At(d, 1), 16) ]

TreadmillDataFlags(d) ==
    [ more_data                      |-> MaskSet(At(d, 0), 1),
      average_speed                  |-> MaskSet(At(d, 0), 2),
      total_distance                 |-> MaskSet(At(d, 0), 4),
      inclination_and_ramp_angle     |-> MaskSet(At(d, 0), 8),
      elevation_gain                 |-> MaskSet(At(d, 0), 16),
      instantaneous_pace             |-> MaskSet(At(d, 0), 32),
      average_pace                   |-> MaskSet(At(d, 0), 64),
      energy                         |-> MaskSet(At(d, 0), 128),
      heart_rate                     |-> MaskSet(At(d, 1), 1),
      metabolic_equivalent           |-> MaskSet(At(d, 1), 2),
      elapsed_time                   |-> MaskSet(At(d, 1), 4),
      remaining_time                 |-> MaskSet(At(d, 1), 8),
      force_on_belt_and_power_output |-> MaskSet(At(d, 1), 16) ]

\* The locals of decode_treadmill_data after `let mut cursor = 4` (main.rs:98-99),
\* every optional still None.  returned: an early `return Err(NotEnoughData)` was
\* taken; panicked: an index was outside the slice.
DecodeStart(d) ==
    [ cursor |-> 4, returned |-> FALSE, panicked |-> FALSE,
      speed |-> u16_from_le_bytes(At(d, 2), At(d, 3)),
      average_speed |-> None, total_distance |-> None,
      inclination |-> None, ramp_angle |-> None,
      positive_elevation |-> None, negative_elevation |-> None,
      instantaneous_pace |-> None, average_pace |-> None,
      total_energy |-> None, energy_per_hour |-> None, energy_per_minute |-> None,
      heart_rate |-> None, metabolic_equivalent |-> None,
      elapsed_time |-> None, remaining_time |-> None,
      force_on_belt |-> None, power_output |-> None ]

Stopped(s) == s.returned \/ s.panicked
Return(s) == [s EXCEPT !.returned = TRUE]
\* the highest index a block reads is cursor + width - 1
Reads(d, s, width) == [s EXCEPT !.panicked = ~InBounds(d, s.cursor + width - 1)]

GroupAverageSpeed(d, flags, s) ==
    IF Stopped(s) \/ ~flags.average_speed THEN s
    ELSE IF Len(d) < s.cursor + 2 THEN Return(s)
    ELSE [Reads(d, s, 2) EXCEPT
            !.average_speed = Some(u16_from_le_bytes(At(d, s.cursor), At(d, s.cursor + 1))),
            !.cursor = s.cursor + 2]

\* A faulty variant of the total_distance block: the u24 taken for a u32.
GroupTotalDistanceWide(d, flags, s) ==
    IF Stopped(s) \/ ~flags.total_distance THEN s
    ELSE IF Len(d) < s.cursor + 4 THEN Return(s)
    ELSE [Reads(d, s, 4) EXCEPT
            !.total_distance = Some(u32_from_le_bytes(At(d, s.cursor), At(d, s.cursor + 1),
                                                      At(d, s.cursor + 2), 0)),
            !.cursor = s.cursor + 4]

GroupTotalDistance(d, flags, s) ==
    IF Stopped(s) \/ ~flags.total_distance THEN s
    ELSE IF Len(d) < s.cursor + 3 THEN Return(s)
    ELSE [Reads(d, s, 3) EXCEPT
            !.total_distance = Some(u32_from_le_bytes(At(d, s.cursor), At(d, s.cursor + 1),
                                                      At(d, s.cursor + 2), 0)),
            !.cursor = s.cursor + 3]

\* A faulty variant of the inclination block: the two values read unsigned.
GroupInclinationUnsigned(d, flags, s) ==
    IF Stopped(s) \/ ~flags.inclination_and_ramp_angle THEN s
    ELSE IF Len(d) < s.cursor + 4 THEN Return(s)
    ELSE [Reads(d, s, 4) EXCEPT
            !.inclination = Some(u16_from_le_bytes(At(d, s.cursor), At(d, s.cursor + 1))),
            !.ramp_angle = Some(u16_from_le_bytes(At(d, s.cursor + 2), At(d, s.cursor + 3))),
            !.cursor = s.cursor + 4]

GroupInclination(d, flags, s) ==
    IF Stopped(s) \/ ~flags.inclination_and_ramp_angle THEN s
    ELSE IF Len(d) < s.cursor + 4 THEN Return(s)
    ELSE [Reads(d, s, 4) EXCEPT
            !.inclination = Some(i16_from_le_bytes(At(d, s.cursor), At(d, s.cursor + 1))),
            !.ramp_angle = Some(i16_from_le_bytes(At(d, s.cursor + 2), At(d, s.cursor + 3))),
            !.cursor = s.cursor + 4]

GroupElevation(d, flags, s) ==
    IF Stopped(s) \/ ~flags.elevation_gain THEN s
    ELSE IF Len(d) < s.cursor + 4 THEN Return(s)
    ELSE [Reads(d, s, 4) EXCEPT
            !.positive_elevation = Some(u16_from_le_bytes(At(d, s.cursor), At(d, s.cursor + 1))),
            !.negative_elevation = Some(u16_from_le_bytes(At(d, s.cursor + 2), At(d, s.cursor + 3))),
            !.cursor = s.cursor + 4]

GroupInstantaneousPace(d, flags, s) ==
    IF Stopped(s) \/ ~flags.instantaneous_pace THEN s
    ELSE IF Len(d) < s.cursor + 2 THEN Return(s)
    ELSE [Reads(d, s, 2) EXCEPT
            !.instantaneous_pace = Some(u16_from_le_bytes(At(d, s.cursor), At(d, s.cursor + 1))),
            !.cursor = s.cursor + 2]

GroupAveragePace(d, flags, s) ==
    IF Stopped(s) \/ ~flags.average_pace THEN s
    ELSE IF Len(d) < s.cursor + 2 THEN Return(s)
    ELSE [Reads(d, s, 2) EXCEPT
            !.average_pace = Some(u16_from_le_bytes(At(d, s.cursor), At(d, s.cursor + 1))),
            !.cursor = s.cursor + 2]

GroupEnergy(d, flags, s) ==
    IF Stopped(s) \/ ~flags.energy THEN s
    ELSE IF Len(d) < s.cursor + 5 THEN Return(s)
    ELSE [Reads(d, s, 5) EXCEPT
            !.total_energy = Some(u16_from_le_bytes(At(d, s.cursor), At(d, s.cursor + 1))),
            !.energy_per_hour = Some(u16_from_le_bytes(At(d, s.cursor + 2), At(d, s.cursor + 3))),
            !.energy_per_minute = Some(At(d, s.cursor + 4)),
            !.cursor = s.cursor + 5]

GroupHeartRate(d, flags, s) ==
    IF Stopped(s) \/ ~flags.heart_rate THEN s
    ELSE IF Len(d) < s.cursor + 1 THEN Return(s)
    ELSE [Reads(d, s, 1) EXCEPT
            !.heart_rate = Some(At(d, s.cursor)),
            !.cursor = s.cursor + 1]

GroupMetabolicEquivalent(d, flags, s) ==
    IF Stopped(s) \/ ~flags.metabolic_equivalent THEN s
    ELSE IF Len(d) < s.cursor + 1 THEN Return(s)
    ELSE [Reads(d, s, 1) EXCEPT
            !.metabolic_equivalent = Some(At(d, s.cursor)),
            !.cursor = s.cursor + 1]

GroupElapsedTime(d, flags, s) ==
    IF Stopped(s) \/ ~flags.elapsed_time THEN s
    ELSE IF Len(d) < s.cursor + 2 THEN Return(s)
    ELSE [Reads(d, s, 2) EXCEPT
            !.elapsed_time = Some(u16_from_le_bytes(At(d, s.cursor), At(d, s.cursor + 1))),
            !.cursor = s.cursor + 2]

GroupRemainingTime(d, flags, s) ==
    IF Stopped(s) \/ ~flags.remaining_time THEN s
    ELSE IF Len(d) < s.cursor + 2 THEN Return(s)
    ELSE [Reads(d, s, 2) EXCEPT
            !.remaining_time = Some(u16_from_le_bytes(At(d, s.cursor), At(d, s.cursor + 1))),
            !.cursor = s.cursor + 2]

\* the last block leaves the cursor where it was (main.rs:211-217)
GroupForceAndPower(d, flags, s) ==
    IF Stopped(s) \/ ~flags.force_on_belt_and_power_output THEN s
    ELSE IF Len(d) < s.cursor + 4 THEN Return(s)
    ELSE [Reads(d, s, 4) EXCEPT
            !.force_on_belt = Some(i16_from_le_bytes(At(d, s.cursor), At(d, s.cursor + 1))),
            !.power_output = Some(i16_from_le_bytes(At(d, s.cursor + 2), At(d, s.cursor + 3)))]

TreadmillData(s) ==
    [ speed |-> s.speed,
      average_speed |-> s.average_speed, total_distance |-> s.total_distance,
      inclination |-> s.inclination, ramp_angle |-> s.ramp_angle,
      positive_elevation |-> s.positive_elevation,
      negative_elevation |-> s.negative_elevation,
      instantaneous_pace |-> s.instantaneous_pace, average_pace |-> s.average_pace,
      total_energy |-> s.total_energy, energy_per_hour |-> s.energy_per_hour,
      energy_per_minute |-> s.energy_per_minute,
      heart_rate |-> s.heart_rate, metabolic_equivalent |-> s.metabolic_equivalent,
      elapsed_time |-> s.elapsed_time, remaining_time |-> s.remaining_time,
      force_on_belt |-> s.force_on_belt, power_output |-> s.power_output ]

decode_treadmill_data(d) ==
    IF Len(d) < 4 THEN NotEnoughData
    ELSE
      LET flags == TreadmillDataFlags(d)
          s1  == GroupAverageSpeed(d, flags, DecodeStart(d))
          s2  == GroupTotalDistance(d, flags, s1)
          s3  == GroupInclination(d, flags, s2)
          s4  == GroupElevation(d, flags, s3)
          s5  == GroupInstantaneousPace(d, flags, s4)
          s6  == GroupAveragePace(d, flags, s5)
          s7  == GroupEnergy(d, flags, s6)
          s8  == GroupHeartRate(d, flags, s7)
          s9  == GroupMetabolicEquivalent(d, flags, s8)
          s10 == GroupElapsedTime(d, flags, s9)
          s11 == GroupRemainingTime(d, flags, s10)
          s12 == GroupForceAndPower(d, flags, s11)
      IN  IF s12.panicked THEN Panic
          ELSE IF s12.returned THEN NotEnoughData
          ELSE Ok(TreadmillData(s12))

----------------------------------------------------------------------------
(* The inputs of the decoder: both flag bytes, then bytes that differ at    *)
(* every offset, cut at every length up to MaxLen.                          *)

MaxLen == 36
\* 101 is odd, so the bytes at any two offsets below 256 differ
PatternByte(i) == (101 * i + 57) % U8

FlagByte0 == 0 .. 255
FlagByte1 == (0 .. 31) \cup {32, 64, 128, 255}

MkBuffer(f0, f1, n) ==
    [i \in 1 .. n |-> IF i = 1 THEN f0 ELSE IF i = 2 THEN f1 ELSE PatternByte(i - 1)]

Buffers ==
    { MkBuffer(f0, f1, n) : f0 \in FlagByte0, f1 \in FlagByte1, n \in 0 .. MaxLen }

DecoderIdle == data = << >> /\ decode_result = Pending
EncoderIdle == command = [op |-> "RequestControl"] /\ message = Pending
ParserIdle ==
    /\ duration_text = << >> /\ pace_raw = [unit |-> "mph", value |-> << >>]
    /\ duration_result = Pending /\ pace_result = Pending
CompilerIdle ==
    /\ workout_raw = [name |-> "", description |-> "", steps |-> << >>]
    /\ workout_result = Pending
TaskIdle ==
    /\ sub = << >> /\ stream_open = FALSE /\ delivered = << >>
    /\ outcomes = << >> /\ task = "finished"

InitDecode ==
    /\ overflow_checks = TRUE
    /\ data \in Buffers
    /\ decode_result = Pending
    /\ EncoderIdle /\ ParserIdle /\ CompilerIdle /\ TaskIdle

\* one call decode_treadmill_data(&data)
Decode ==
    /\ decode_result = Pending
    /\ decode_result' = decode_treadmill_data(data)
    /\ UNCHANGED << overflow_checks, data, encoder_vars, parser_vars, compiler_vars, task_vars >>

SpecDecode == InitDecode /\ [][Decode]_vars

----------------------------------------------------------------------------
(* The frame layout as the specification tabulates it (section 4.1), written *)
(* independently of the decoder above: group g is gated by one flag bit and  *)
(* has a fixed width; a field sits at a fixed place inside its group.        *)

GroupWidths == << 2, 3, 4, 4, 2, 2, 5, 1, 1, 2, 2, 4 >>
GroupFlagByte(g) == IF g <= 7 THEN 0 ELSE 1
GroupFlagBit(g) == IF g <= 7 THEN g ELSE g - 8
GroupPresent(d, g) == (d[GroupFlagByte(g) + 1] \div Pow2(GroupFlagBit(g))) % 2 = 1

RECURSIVE WidthOfGroupsBefore(_, _)
WidthOfGroupsBefore(d, g) ==
    IF g = 1 THEN 0
    ELSE WidthOfGroupsBefore(d, g - 1)
         + (IF GroupPresent(d, g - 1) THEN GroupWidths[g - 1] ELSE 0)

BytesNeeded(d) == 4 + WidthOfGroupsBefore(d, Len(GroupWidths) + 1)
GroupOffset(d, g) == 4 + WidthOfGroupsBefore(d, g)

Fields ==
    { [name |-> "average_speed",        group |-> 1,  rel |-> 0, width |-> 2, signed |-> FALSE],
      [name |-> "total_distance",       group |-> 2,  rel |-> 0, width |-> 3, signed |-> FALSE],
      [name |-> "inclination",          group |-> 3,  rel |-> 0, width |-> 2, signed |-> TRUE],
      [name |-> "ramp_angle",           group |-> 3,  rel |-> 2, width |-> 2, signed |-> TRUE],
      [name |-> "positive_elevation",   group |-> 4,  rel |-> 0, width |-> 2, signed |-> FALSE],
      [name |-> "negative_elevation",   group |-> 4,  rel |-> 2, width |-> 2, signed |-> FALSE],
      [name |-> "instantaneous_pace",   group |-> 5,  rel |-> 0, width |-> 2, signed |-> FALSE],
      [name |-> "average_pace",         group |-> 6,  rel |-> 0, width |-> 2, signed |-> FALSE],
      [name |-> "total_energy",         group |-> 7,  rel |-> 0, width |-> 2, signed |-> FALSE],
      [name |-> "energy_per_hour",      group |-> 7,  rel |-> 2, width |-> 2, signed |-> FALSE],
      [name |-> "energy_per_minute",    group |-> 7,  rel |-> 4, width |-> 1, signed |-> FALSE],
      [name |-> "heart_rate",           group |-> 8,  rel |-> 0, width |-> 1, signed |-> FALSE],
      [name |-> "metabolic_equivalent", group |-> 9,  rel |-> 0, width |-> 1, signed |-> FALSE],
      [name |-> "elapsed_time",         group |-> 10, rel |-> 0, width |-> 2, signed |-> FALSE],
      [name |-> "remaining_time",       group |-> 11, rel |-> 0, width |-> 2, signed |-> FALSE],
      [name |-> "force_on_belt",        group |-> 12, rel |-> 0, width |-> 2, signed |-> TRUE],
      [name |-> "power_output",         group |-> 12, rel |-> 2, width |-> 2, signed |-> TRUE] }

\* the little-endian value of the `width` bytes at index `off` (0-based)
RECURSIVE LittleEndian(_, _, _)
LittleEndian(d, off, width) ==
    IF width = 0 THEN 0 ELSE d[off + 1] + 256 * LittleEndian(d, off + 1, width - 1)

TwosComplement16(u) == IF u >= 32768 THEN u - 65536 ELSE u

FieldValue(d, f) ==
    LET u == LittleEndian(d, GroupOffset(d, f.group) + f.rel, f.width)
    IN  IF f.signed THEN TwosComplement16(u) ELSE u

Decoded == decode_result # Pending
DecodedFrame == decode_result.tag = "Ok"

\* C1: decode_treadmill_data returns a frame or NotEnoughData for every buffer
\* (no index leaves the buffer), and NotEnoughData exactly when the buffer is
\* shorter than 4 bytes or shorter than 4 + the widths of the groups whose flag
\* bit is set.
C1_NotEnoughDataExactly ==
    Decoded =>
        /\ decode_result.tag \in {"Ok", "Err"}
        /\ (decode_result = NotEnoughData)
             <=> (Len(data) < 4 \/ Len(data) < BytesNeeded(data))

\* C1 witness: average_speed (2 bytes) is present in full, total_distance is
\* declared and cut short, and the whole decode failed.
C1_Witness ==
    /\ decode_result = NotEnoughData
    /\ Len(data) = 8
    /\ GroupPresent(data, 1) /\ GroupPresent(data, 2)

\* C2: in every frame returned, an optional field is populated iff the flag bit
\* of its group is set; more_data and bits 5..7 of byte 1 gate nothing.
C2_PopulatedIffFlag ==
    DecodedFrame =>
        /\ \A f \in Fields :
              (decode_result.val[f.name] # None) <=> GroupPresent(data, f.group)
        /\ (data[1] \in {0, 1} /\ data[2] \in {0, 32, 64, 128})
              => \A f \in Fields : decode_result.val[f.name] = None

\* C2 witness: a frame with more_data and a reserved bit set and nothing else,
\* so only speed is populated; and a frame with some groups in and some out.
C2_Witness ==
    /\ DecodedFrame
    /\ data[1] = 1 /\ data[2] = 32
    /\ decode_result.val.heart_rate = None

\* C3: in every frame returned, speed is the u16 at bytes 2..3 and every present
\* field is the little-endian value, at its width and signedness, found at
\* 4 + the widths of the earlier present groups + its place in its group.
C3_ValuesAtOffsets ==
    DecodedFrame =>
        /\ decode_result.val.speed = data[3] + 256 * data[4]
        /\ \A f \in Fields :
              GroupPresent(data, f.group)
                  => decode_result.val[f.name] = << FieldValue(data, f) >>
        /\ GroupPresent(data, 2) => decode_result.val.total_distance[1] < 16777216

\* C3 witness: total_distance is read at offset 4 because average_speed is
\* absent, the inclination pair follows it at 7, and force_on_belt, read right
\* after them at 11 because the groups between are absent, is negative.
C3_Witness ==
    /\ DecodedFrame
    /\ ~GroupPresent(data, 1) /\ GroupPresent(data, 2) /\ GroupPresent(data, 3)
    /\ GroupPresent(data, 12)
    /\ decode_result.val.total_distance[1] > 65535
    /\ decode_result.val.force_on_belt[1] < 0
    /\ decode_result.val.force_on_belt[1] = data[12] + 256 * data[13] - 65536

----------------------------------------------------------------------------
(* treadmill_command_to_message, main.rs:241-252 *)

\* <int>.to_le_bytes(): u16 and i16 give 2 bytes, u32 gives 4
u16_to_le_bytes(v) == << v % U8, v \div U8 >>
i16_to_le_bytes(v) == u16_to_le_bytes(IF v < 0 THEN v + U16 ELSE v)
u32_to_le_bytes(v) == << v % U8, (v \div U8) % U8, (v \div U16) % U8, v \div U24 >>

\* A faulty variant of the encoder: the distance keeps all four bytes.
treadmill_command_to_message_u32(c) ==
    CASE c.op = "RequestControl" -> << 0 >>
      [] c.op = "Reset" -> << 1 >>
      [] c.op = "SetTargetSpeed" ->
            << 2, u16_to_le_bytes(c.arg)[1], u16_to_le_bytes(c.arg)[2] >>
      [] c.op = "SetTargetInclination" ->
            << 3, i16_to_le_bytes(c.arg)[1], i16_to_le_bytes(c.arg)[2] >>
      [] c.op = "StartOrResume" -> << 7 >>
      [] c.op = "StopOrPause" -> << 8 >>
      [] c.op = "SetTargetedDistance" ->
            << 12, u32_to_le_bytes(c.arg)[1], u32_to_le_bytes(c.arg)[2],
               u32_to_le_bytes(c.arg)[3], u32_to_le_bytes(c.arg)[4] >>
      [] c.op = "SetTargetedTrainingTime" ->
            << 13, u16_to_le_bytes(c.arg)[1], u16_to_le_bytes(c.arg)[2] >>

treadmill_command_to_message(c) ==
    CASE c.op = "RequestControl" -> << 0 >>
      [] c.op = "Reset" -> << 1 >>
      [] c.op = "SetTargetSpeed" ->
            << 2, u16_to_le_bytes(c.arg)[1], u16_to_le_bytes(c.arg)[2] >>
      [] c.op = "SetTargetInclination" ->
            << 3, i16_to_le_bytes(c.arg)[1], i16_to_le_bytes(c.arg)[2] >>
      [] c.op = "StartOrResume" -> << 7 >>
      [] c.op = "StopOrPause" -> << 8 >>
      [] c.op = "SetTargetedDistance" ->
            << 12, u32_to_le_bytes(c.arg)[1], u32_to_le_bytes(c.arg)[2],
               u32_to_le_bytes(c.arg)[3] >>
      [] c.op = "SetTargetedTrainingTime" ->
            << 13, u16_to_le_bytes(c.arg)[1], u16_to_le_bytes(c.arg)[2] >>

(* The inputs of the encoder: every variant; the parameters run over the    *)
(* small values and the edges of each width.  A u32 above 2^31 - 1 is out   *)
(* of the model checker's integers, so the distances stop there.            *)

MaxParam == 16

U16Params == (0 .. MaxParam) \cup {200, 255, 256, 1234, 32767, 32768, 65535}
I16Params == (-MaxParam .. MaxParam) \cup {-32768, -32767, -257, -256, 255, 256, 1234, 32767}
U32Params == U16Params \cup {65536, 16777215, 16777216, 16777217, 16778450,
                             33554432 + 1234, 2147483647}

TreadmillCommands ==
    { [op |-> o] : o \in {"RequestControl", "Reset", "StartOrResume", "StopOrPause"} }
    \cup { [op |-> "SetTargetSpeed", arg |-> v] : v \in U16Params }
    \cup { [op |-> "SetTargetInclination", arg |-> v] : v \in I16Params }
    \cup { [op |-> "SetTargetedDistance", arg |-> v] : v \in U32Params }
    \cup { [op |-> "SetTargetedTrainingTime", arg |-> v] : v \in U16Params }

InitEncode ==
    /\ overflow_checks = TRUE
    /\ command \in TreadmillCommands
    /\ message = Pending
    /\ DecoderIdle /\ ParserIdle /\ CompilerIdle /\ TaskIdle

\* one call treadmill_command_to_message(command)
Encode ==
    /\ message = Pending
    /\ message' = Ok(treadmill_command_to_message(command))
    /\ UNCHANGED << overflow_checks, command, decoder_vars, parser_vars, compiler_vars, task_vars >>

SpecEncode == InitEncode /\ [][Encode]_vars

Encoded == message # Pending

\* the opcode table of section 4.2: opcode, payload width
Opcode(op) ==
    CASE op = "RequestControl" -> 0
      [] op = "Reset" -> 1
      [] op = "SetTargetSpeed" -> 2
      [] op = "SetTargetInclination" -> 3
      [] op = "StartOrResume" -> 7
      [] op = "StopOrPause" -> 8
      [] op = "SetTargetedDistance" -> 12
      [] op = "SetTargetedTrainingTime" -> 13

PayloadWidth(op) ==
    CASE op \in {"SetTargetSpeed", "SetTargetInclination", "SetTargetedTrainingTime"} -> 2
      [] op = "SetTargetedDistance" -> 3
      [] OTHER -> 0

\* C4: the message is the opcode byte followed by the parameter's little-endian
\* bytes: reading the payload back little-endian gives the parameter modulo
\* 2^(8 * width), every element is a byte, and SetTargetSpeed(1234) is
\* [0x02, 0xD2, 0x04].
C4_OpcodeThenLittleEndian ==
    Encoded =>
        LET w == PayloadWidth(command.op) IN
        /\ Len(message.val) = 1 + w
        /\ \A i \in 1 .. Len(message.val) : message.val[i] \in 0 .. 255
        /\ message.val[1] = Opcode(command.op)
        /\ w > 0 => LittleEndian(message.val, 1, w) = command.arg % Pow2(8 * w)
        /\ command = [op |-> "SetTargetSpeed", arg |-> 1234] => message.val = << 2, 210, 4 >>

\* C4 witness: a distance above 2^24 was encoded and lost its high byte.
C4_Witness ==
    /\ Encoded
    /\ command.op = "SetTargetedDistance"
    /\ command.arg = 16778450
    /\ message.val = << 12, 210, 4, 0 >>

----------------------------------------------------------------------------
(* parse_duration and parse_pace, main.rs:328-351 *)

DigitChars == << "0", "1", "2", "3", "4", "5", "6", "7", "8", "9" >>
IsDigit(c) == \E i \in 1 .. 10 : DigitChars[i] = c
DigitValue(c) == (CHOOSE i \in 1 .. 10 : DigitChars[i] = c) - 1

\* text.split(":").collect::<Vec<_>>(): the pieces between the colons, at least one
RECURSIVE split(_)
split(t) ==
    IF \E i \in 1 .. Len(t) : t[i] = ":"
    THEN LET i == CHOOSE k \in 1 .. Len(t) :
                     t[k] = ":" /\ \A j \in 1 .. k - 1 : t[j] # ":"
         IN  << SubSeq(t, 1, i - 1) >> \o split(SubSeq(t, i + 1, Len(t)))
    ELSE << t >>

\* the digits of str::parse::<u16>: -1 for a character that is no digit or a
\* value above u16::MAX
RECURSIVE digits_u16(_, _)
digits_u16(cs, acc) ==
    IF cs = << >> THEN acc
    ELSE IF ~IsDigit(Head(cs)) THEN -1
    ELSE LET n == acc * 10 + DigitValue(Head(cs))
         IN  IF n >= U16 THEN -1 ELSE digits_u16(Tail(cs), n)

\* str::parse::<u16>(): Some(value), or None for the Err the caller unwraps.
\* An empty string fails; one leading "+" before at least one more character
\* is accepted.
parse_u16(cs) ==
    LET body == IF Len(cs) > 1 /\ cs[1] = "+" THEN Tail(cs) ELSE cs
        v == IF body = << >> THEN -1 ELSE digits_u16(body, 0)
    IN  IF v < 0 THEN None ELSE Some(v)

\* a u16 operation whose exact result is x: with overflow checks the build
\* panics above u16::MAX, without them the result wraps
arith_u16(x) ==
    IF x < U16 THEN Ok(x) ELSE IF overflow_checks THEN Panic ELSE Ok(x % U16)

\* minutes * 60 + seconds in u16 (main.rs:334 and main.rs:350)
minutes_60_plus_seconds(minutes, seconds) ==
    LET product == arith_u16(minutes * 60)
    IN  IF product.tag = "Panic" THEN Panic ELSE arith_u16(product.val + seconds)

\* parts.get(0).unwrap_or(&"0"), parts.get(1).unwrap_or(&"0"), each parsed and unwrapped
minutes_of(parts) == parse_u16(IF Len(parts) >= 1 THEN parts[1] ELSE << "0" >>)
seconds_of(parts) == parse_u16(IF Len(parts) >= 2 THEN parts[2] ELSE << "0" >>)

parse_duration(text) ==
    LET parts == split(text)
        minutes == minutes_of(parts)
        seconds == seconds_of(parts)
    IN  IF minutes = None \/ seconds = None THEN Panic
        ELSE minutes_60_plus_seconds(minutes[1], seconds[1])

\* `x as u16` of a non-negative float whose integer part is x: saturating
as_u16(x) == IF x > U16 - 1 THEN U16 - 1 ELSE x

\* (1. / seconds_per_mile * (60.0 * 60.0) * (1.60934 / 1.) * 100.) as u16, main.rs:335-338.
\* The exact value is 579362.4 / seconds_per_mile, which is never within 1e-6 of
\* an integer for 1 <= seconds_per_mile <= 65535, so the f64 rounding never
\* changes its integer part; 1. / 0. is +inf, which converts to u16::MAX.
km_per_hour_x100(seconds_per_mile) ==
    IF seconds_per_mile = 0 THEN U16 - 1
    ELSE as_u16((3600 * 160934) \div (1000 * seconds_per_mile))

parse_pace(pace) ==
    IF pace.unit = "min/mi"
    THEN LET parts == split(pace.value)
             minutes == minutes_of(parts)
             seconds == seconds_of(parts)
             seconds_per_mile == minutes_60_plus_seconds(minutes[1], seconds[1])
         IN  IF minutes = None \/ seconds = None THEN Panic
             ELSE IF seconds_per_mile.tag = "Panic" THEN Panic
             ELSE Ok(km_per_hour_x100(seconds_per_mile.val))
    ELSE Ok(0)

(* The inputs of the parsers: texts "M", "M:S" and "M:S:X" whose components  *)
(* are decimal renderings (with and without a leading zero) of small numbers *)
(* and of the numbers around the edges, and the empty component.             *)

MaxSmall == 10

Numbers == (0 .. MaxSmall) \cup {29, 30, 59, 60, 150, 480, 600, 1092, 1093, 65535, 65536}

RECURSIVE Decimal(_)
Decimal(n) ==
    IF n < 10 THEN << DigitChars[n + 1] >>
    ELSE Decimal(n \div 10) \o << DigitChars[(n % 10) + 1] >>

Renderings(n) == {Decimal(n)} \cup (IF n < 10 THEN {<< "0" >> \o Decimal(n)} ELSE {})

Components == UNION { Renderings(n) : n \in Numbers } \cup {<< >>}
Extra == << "7" >>

Texts ==
    Components
    \cup { a \o << ":" >> \o b : a \in Components, b \in Components }
    \cup { a \o << ":" >> \o b \o << ":" >> \o Extra : a \in Components, b \in Components }

Units == {"mph", "kph", "min/mi", "min/km"}

InitParse ==
    /\ overflow_checks \in BOOLEAN
    /\ duration_text \in Texts
    /\ pace_raw \in { [unit |-> u, value |-> duration_text] : u \in Units }
    /\ duration_result = Pending
    /\ pace_result = Pending
    /\ DecoderIdle /\ EncoderIdle /\ CompilerIdle /\ TaskIdle

\* one call parse_duration(&duration_text)
ParseDuration ==
    /\ duration_result = Pending
    /\ duration_result' = parse_duration(duration_text)
    /\ UNCHANGED << overflow_checks, duration_text, pace_raw, pace_result,
                    decoder_vars, encoder_vars, compiler_vars, task_vars >>

\* one call parse_pace(&pace_raw)
ParsePace ==
    /\ pace_result = Pending
    /\ pace_result' = parse_pace(pace_raw)
    /\ UNCHANGED << overflow_checks, duration_text, pace_raw, duration_result,
                    decoder_vars, encoder_vars, compiler_vars, task_vars >>

SpecParse == InitParse /\ [][ParseDuration \/ ParsePace]_vars

\* the numbers a component that fits in 16 bits can stand for
Fits16 == { n \in Numbers : n < 65536 }

\* t is "M:S" for the numbers m and s in some rendering
IsMinSec(t, m, s) ==
    \E a \in Renderings(m), b \in Renderings(s) : t = a \o << ":" >> \o b

\* t is "M:S", "M" (with s = 0) or "M:S:X" for the numbers m and s
IsDurationOf(t, m, s) ==
    \/ IsMinSec(t, m, s)
    \/ s = 0 /\ t \in Renderings(m)
    \/ \E a \in Renderings(m), b \in Renderings(s) :
          t = a \o << ":" >> \o b \o << ":" >> \o Extra

\* C5: for every text "M:S" or "M" whose components fit in 16 bits,
\* parse_duration returns M * 60 + S (S = 0 when absent, later components
\* ignored).
C5_DurationIsSixtyMPlusS ==
    duration_result # Pending =>
        \A m \in Fits16, s \in Fits16 :
            IsDurationOf(duration_text, m, s) => duration_result = Ok(m * 60 + s)

\* C6: for a min/mi pace "M:S" parse_pace returns
\* floor((3600 / (M * 60 + S)) * 1.60934 * 100), i.e. floor(579362.4 / (M * 60 + S)),
\* as a u16 (the conversion saturates at 65535), for every M and S that fit in
\* 16 bits; for the other units it returns 0.
C6_PaceIsHundredthsKmPerHour ==
    pace_result # Pending =>
        /\ pace_raw.unit # "min/mi" => pace_result = Ok(0)
        /\ pace_raw.unit = "min/mi" =>
              \A m \in Fits16, s \in Fits16 :
                  (IsMinSec(pace_raw.value, m, s) /\ m * 60 + s > 0)
                      => LET v == 5793624 \div (10 * (m * 60 + s))
                         IN  pace_result = Ok(IF v > 65535 THEN 65535 ELSE v)

----------------------------------------------------------------------------
(* parse_workout_step and parse_workout, main.rs:353-394 *)

F32Mantissa == 24
F32Clamp == Pow2(30)

\* n as f32 for an integer 0 <= n < 2^30: round to nearest, ties to even, at a
\* 24-bit significand
f32_of_int(n) ==
    IF n < Pow2(F32Mantissa) THEN n
    ELSE LET e == CHOOSE k \in 1 .. 6 :
                      Pow2(F32Mantissa - 1 + k) <= n /\ n < Pow2(F32Mantissa + k)
             u == Pow2(e)
             q == n \div u
             r == n % u
         IN  IF 2 * r > u \/ (2 * r = u /\ q % 2 = 1) THEN (q + 1) * u ELSE q * u

\* a as f32 * b as f32 for u16 a and b (both exact in f32).  A product of 2^30
\* or more is returned as 2^30: divided by 1000.0 it is above u16::MAX either
\* way, so the conversion that follows gives the same u16.
f32_mul(a, b) ==
    IF b > 0 /\ a > (F32Clamp - 1) \div b THEN F32Clamp ELSE f32_of_int(a * b)

\* the integer part of the f32 quotient m / d, for an f32 integer m <= 2^30 and
\* an integer d exact in f32: the exact quotient q + r/d lies between the f32
\* neighbours below q + 1 (spacing 2^(k - 23) when 2^k < q + 1 <= 2^(k + 1)) and
\* rounds up to q + 1 when it is at most half a spacing away from it.
f32_div_trunc(m, d) ==
    LET q == m \div d
        r == m % d
        k == CHOOSE j \in -1 .. 30 : Pow2(j + 1) >= q + 1 /\ (j = -1 \/ Pow2(j) < q + 1)
    IN  IF (d - r) <= d \div Pow2(F32Mantissa - k) THEN q + 1 ELSE q

\* (pace as f32 * duration as f32 / 1000.0) as u16, main.rs:366
step_distance(pace, duration) == as_u16(f32_div_trunc(f32_mul(pace, duration), 1000))

\* A faulty variant of the expansion: one copy too many.
RECURSIVE repeat_extend_inclusive(_, _)
repeat_extend_inclusive(steps, times) ==
    IF times = 0 THEN steps ELSE repeat_extend_inclusive(steps, times - 1) \o steps

\* for _ in 0..*times { result.extend(steps.clone()) }, main.rs:357-361
RECURSIVE repeat_extend(_, _)
repeat_extend(steps, times) ==
    IF times = 0 THEN << >> ELSE repeat_extend(steps, times - 1) \o steps

RECURSIVE parse_workout_step(_)
RECURSIVE flat_map_steps(_)

\* steps.iter().flat_map(|s| parse_workout_step(s)).collect(); a panic in any
\* call ends the whole evaluation
flat_map_steps(steps) ==
    IF steps = << >> THEN Ok(<< >>)
    ELSE LET first == parse_workout_step(Head(steps))
             rest == flat_map_steps(Tail(steps))
         IN  IF first.tag = "Panic" \/ rest.tag = "Panic" THEN Panic
             ELSE Ok(first.val \o rest.val)

parse_workout_step(step) ==
    IF step.type = "repeat"
    THEN LET steps == flat_map_steps(step.steps)
         IN  IF steps.tag = "Panic" THEN Panic
             ELSE Ok(repeat_extend(steps.val, step.times))
    ELSE LET pace == parse_pace(step.pace)
             duration == parse_duration(step.duration)
         IN  IF pace.tag = "Panic" \/ duration.tag = "Panic" THEN Panic
             ELSE Ok(<< [ name |-> step.name,
                          duration |-> duration.val,
                          distance |-> step_distance(pace.val, duration.val),
                          pace |-> pace.val,
                          angle |-> step.angle ] >>)

\* A faulty variant of the totals: the distance accumulator adds the duration.
add_step_duration_twice(acc, step) ==
    LET distance == arith_u16(acc.val.distance + step.duration)
        duration == arith_u16(acc.val.duration + step.duration)
    IN  IF acc.tag = "Panic" \/ distance.tag = "Panic" \/ duration.tag = "Panic" THEN Panic
        ELSE Ok([distance |-> distance.val, duration |-> duration.val])

\* distance += step.distance; duration += step.duration; (u16), main.rs:383-384
add_step(acc, step) ==
    LET distance == arith_u16(acc.val.distance + step.distance)
        duration == arith_u16(acc.val.duration + step.duration)
    IN  IF acc.tag = "Panic" \/ distance.tag = "Panic" \/ duration.tag = "Panic" THEN Panic
        ELSE Ok([distance |-> distance.val, duration |-> duration.val])

\* for step in &steps { ... } from distance = 0, duration = 0, main.rs:380-385
RECURSIVE totals(_, _)
totals(steps, n) ==
    IF n = 0 THEN Ok([distance |-> 0, duration |-> 0])
    ELSE add_step(totals(steps, n - 1), steps[n])

parse_workout(workout) ==
    LET steps == flat_map_steps(workout.steps)
        sums == totals(steps.val, Len(steps.val))
    IN  IF steps.tag = "Panic" THEN Panic
        ELSE IF sums.tag = "Panic" THEN Panic
        ELSE Ok([ duration |-> sums.val.duration,
                  distance |-> sums.val.distance,
                  steps |-> steps.val,
                  name |-> workout.name,
                  description |-> workout.description ])

(* The inputs of the compiler: four run leaves, repeats of up to MaxChildren  *)
(* leaves, repeats that nest such a repeat beside a leaf, and workouts of one *)
(* such node or of a leaf beside a node.                                      *)

MaxTimes == 3
MaxChildren == 2

Run(name, duration, pace, angle) ==
    [type |-> "run", name |-> name, duration |-> duration, pace |-> pace, angle |-> angle]
Repeat(times, steps) == [type |-> "repeat", times |-> times, steps |-> steps]

\* 1:00 at 8:00 min/mi
LeafEasy == Run("easy", << "1", ":", "0", "0" >>,
                [unit |-> "min/mi", value |-> << "8", ":", "0", "0" >>], 0)
\* 150:29 at 5:00 min/mi
LeafTempo == Run("tempo", << "1", "5", "0", ":", "2", "9" >>,
                 [unit |-> "min/mi", value |-> << "5", ":", "0", "0" >>], -2)
\* 600:00 at 10 km/h
LeafLong == Run("long", << "6", "0", "0", ":", "0", "0" >>,
                [unit |-> "kph", value |-> << "1", "0" >>], 3)
\* 1093:00 at 6 mph
LeafDay == Run("day", << "1", "0", "9", "3", ":", "0", "0" >>,
               [unit |-> "mph", value |-> << "6" >>], 1)

Leaves == {LeafEasy, LeafTempo, LeafLong, LeafDay}

SeqsUpTo(S, n) == UNION { [1 .. k -> S] : k \in 0 .. n }

Repeats1 == { Repeat(t, c) : t \in 0 .. MaxTimes, c \in SeqsUpTo(Leaves, MaxChildren) }
Nodes1 == Leaves \cup Repeats1
Repeats2 ==
    { Repeat(t, c) : t \in 0 .. MaxTimes,
                     c \in UNION { { << r >>, << l, r >>, << r, l >> } :
                                       r \in Repeats1, l \in Leaves } }
Nodes2 == Nodes1 \cup Repeats2

TopSteps ==
    {<< >>} \cup { << n >> : n \in Nodes2 }
    \cup UNION { { << l, n >>, << n, l >> } : l \in Leaves, n \in Nodes1 }

WorkoutRaws ==
    { [name |-> "plan", description |-> "intervals", steps |-> st] : st \in TopSteps }

InitWorkout ==
    /\ overflow_checks \in BOOLEAN
    /\ workout_raw \in WorkoutRaws
    /\ workout_result = Pending
    /\ DecoderIdle /\ EncoderIdle /\ ParserIdle /\ TaskIdle

\* one call parse_workout(&workout_raw)
ParseWorkout ==
    /\ workout_result = Pending
    /\ workout_result' = parse_workout(workout_raw)
    /\ UNCHANGED << overflow_checks, workout_raw, decoder_vars, encoder_vars,
                    parser_vars, task_vars >>

SpecWorkout == InitWorkout /\ [][ParseWorkout]_vars

Compiled == workout_result # Pending
PlanReturned == workout_result.tag = "Ok"

\* floor(p * d / 1000) in exact integer arithmetic, split so that no
\* intermediate value leaves 32 bits
FloorMilli(p, d) == p * (d \div 1000) + (p * (d % 1000)) \div 1000

IsOneRun == Len(workout_raw.steps) = 1 /\ workout_raw.steps[1].type = "run"

\* C7: a Run leaf yields exactly one step: pace and duration from parse_pace
\* and parse_duration, name and angle copied, and distance equal to
\* floor(pace * duration / 1000) of those two integers (held in a u16, so at
\* most 65535).  Stated for the calls that return.
C7_RunStepDistanceIsFloor ==
    (PlanReturned /\ IsOneRun) =>
        LET leaf == workout_raw.steps[1]
            steps == workout_result.val.steps
        IN  /\ Len(steps) = 1
            /\ steps[1].name = leaf.name
            /\ steps[1].angle = leaf.angle
            /\ Ok(steps[1].pace) = parse_pace(leaf.pace)
            /\ Ok(steps[1].duration) = parse_duration(leaf.duration)
            /\ steps[1].distance = as_u16(FloorMilli(steps[1].pace, steps[1].duration))

\* every node of a step tree, the step itself included
RECURSIVE NodesUnder(_)
NodesUnder(step) ==
    {step} \cup (IF step.type = "repeat"
                 THEN UNION { NodesUnder(step.steps[i]) : i \in 1 .. Len(step.steps) }
                 ELSE {})

RepeatNodes ==
    { n \in UNION { NodesUnder(workout_raw.steps[i]) : i \in 1 .. Len(workout_raw.steps) } :
        n.type = "repeat" }

\* the expansions of the steps of a list, one call each, and their in-order
\* concatenation
Expansions(steps) == [i \in 1 .. Len(steps) |-> parse_workout_step(steps[i])]
AllReturn(exps) == \A i \in 1 .. Len(exps) : exps[i].tag = "Ok"
RECURSIVE Concatenation(_, _)
Concatenation(exps, n) ==
    IF n = 0 THEN << >> ELSE Concatenation(exps, n - 1) \o exps[n].val

\* C8: a Repeat node at any depth expands to `times` back-to-back copies of the
\* in-order concatenation F of its children's expansions: times * |F| steps,
\* step k equal to step (k mod |F|) of F, nothing when times = 0; and the plan's
\* steps are the in-order concatenation of the top-level expansions.
C8_RepeatIsTimesCopies ==
    Compiled =>
        /\ \A n \in RepeatNodes :
              LET exps == Expansions(n.steps)
                  F == Concatenation(exps, Len(exps))
                  R == parse_workout_step(n)
              IN  AllReturn(exps) =>
                    /\ R.tag = "Ok"
                    /\ Len(R.val) = n.times * Len(F)
                    /\ \A k \in 0 .. Len(R.val) - 1 : R.val[k + 1] = F[(k % Len(F)) + 1]
                    /\ n.times = 0 => R.val = << >>
        /\ LET tops == Expansions(workout_raw.steps)
           IN  /\ PlanReturned => AllReturn(tops)
               /\ PlanReturned =>
                     workout_result.val.steps = Concatenation(tops, Len(tops))

\* C8 witness: a plan was returned for a repeat (3 times) that nests a repeat
\* (2 times) of two different runs beside a third run.
C8_Witness ==
    /\ PlanReturned
    /\ workout_raw.steps =
         << Repeat(3, << Repeat(2, << LeafEasy, LeafTempo >>), LeafLong >>) >>
    /\ Len(workout_result.val.steps) = 15
    /\ workout_result.val.steps[5].name = "long"
    /\ workout_result.val.steps[7].name = "tempo"

RECURSIVE SumOf(_, _, _)
SumOf(steps, field, n) ==
    IF n = 0 THEN 0 ELSE SumOf(steps, field, n - 1) + steps[n][field]

PlanSteps == workout_result.val.steps
SumOfDurations == SumOf(PlanSteps, "duration", Len(PlanSteps))
SumOfDistances == SumOf(PlanSteps, "distance", Len(PlanSteps))

\* C9 as stated: the plan's duration is the sum of the durations of its steps
\* and its distance the sum of their distances.
C9_TotalsAreSums ==
    PlanReturned =>
        /\ workout_result.val.duration = SumOfDurations
        /\ workout_result.val.distance = SumOfDistances

\* C9 as amended: the totals are those sums modulo 2^16 in every plan returned
\* (so the sums themselves while they fit in 16 bits); a build with overflow
\* checks returns no plan once a sum passes 65535, and no call fails otherwise
\* unless a leaf fails.  A 3-times repeat of one 1:00 run at 8:00 min/mi gives
\* 180 s and 3 times the step's distance.
C9_TotalsAreSumsModulo ==
    /\ PlanReturned =>
          /\ workout_result.val.duration = SumOfDurations % U16
          /\ workout_result.val.distance = SumOfDistances % U16
          /\ overflow_checks => (SumOfDurations < U16 /\ SumOfDistances < U16)
    /\ (Compiled /\ ~PlanReturned) =>
          LET tops == Expansions(workout_raw.steps)
              flat == Concatenation(tops, Len(tops))
          IN  AllReturn(tops) =>
                /\ overflow_checks
                /\ \/ SumOf(flat, "duration", Len(flat)) >= U16
                   \/ SumOf(flat, "distance", Len(flat)) >= U16
    /\ (PlanReturned /\ workout_raw.steps = << Repeat(3, << LeafEasy >>) >>) =>
          /\ workout_result.val.duration = 180
          /\ workout_result.val.distance = 3 * PlanSteps[1].distance
          /\ PlanSteps[1].distance = 72

\* C9 witness: a plan whose steps sum to more than 65535 seconds was returned.
C9_Witness ==
    /\ PlanReturned
    /\ SumOfDurations > 65535
    /\ SumOfDistances > 0
    /\ Len(PlanSteps) >= 3

----------------------------------------------------------------------------
(* The notification task of connect_to_treadmill, main.rs:476-489:          *)
(*   while let Some(notification) = sub.next().await {                      *)
(*       match decode_treadmill_data(&notification.value) { ... } }         *)
(* The stream `sub` carries the notifications of the peripheral in order    *)
(* and ends when the peripheral goes away.                                  *)

MaxNotifications == 4

\* a bare frame; a buffer shorter than the header; a frame that declares
\* average_speed and stops one byte into it; a frame with average_speed,
\* total_distance and heart_rate
NotificationValues ==
    { << 0, 0, 200, 0 >>,
      << 0, 0, 1 >>,
      << 2, 0, 200, 0, 10 >>,
      << 6, 1, 44, 1, 1, 2, 3, 4, 5, 60 >> }

InitTask ==
    /\ overflow_checks = TRUE
    /\ sub = << >>
    /\ stream_open = TRUE
    /\ delivered = << >>
    /\ outcomes = << >>
    /\ task = "running"
    /\ DecoderIdle /\ EncoderIdle /\ ParserIdle /\ CompilerIdle

\* the peripheral notifies: the value joins the stream
Notify(value) ==
    /\ stream_open
    /\ Len(delivered) < MaxNotifications
    /\ sub' = Append(sub, value)
    /\ delivered' = Append(delivered, value)
    /\ UNCHANGED << overflow_checks, stream_open, outcomes, task,
                    decoder_vars, encoder_vars, parser_vars, compiler_vars >>

\* the stream ends; what it already holds is still handed out
StreamEnd ==
    /\ stream_open
    /\ stream_open' = FALSE
    /\ UNCHANGED << overflow_checks, sub, delivered, outcomes, task,
                    decoder_vars, encoder_vars, parser_vars, compiler_vars >>

\* A faulty variant of the task: a failed decode leaves the loop.
TaskNextBreakOnError ==
    /\ task = "running"
    /\ sub # << >>
    /\ LET outcome == decode_treadmill_data(Head(sub))
       IN  /\ outcomes' = Append(outcomes, outcome)
           /\ task' = IF outcome.tag = "Ok" THEN "running" ELSE "finished"
    /\ sub' = Tail(sub)
    /\ UNCHANGED << overflow_checks, stream_open, delivered,
                    decoder_vars, encoder_vars, parser_vars, compiler_vars >>

\* one turn of the loop: sub.next() gives Some(notification), it is decoded and
\* the outcome printed by either arm of the match; a panic would end the task
TaskNext ==
    /\ task = "running"
    /\ sub # << >>
    /\ LET outcome == decode_treadmill_data(Head(sub))
       IN  /\ outcomes' = Append(outcomes, outcome)
           /\ task' = IF outcome.tag = "Panic" THEN "panicked" ELSE "running"
    /\ sub' = Tail(sub)
    /\ UNCHANGED << overflow_checks, stream_open, delivered,
                    decoder_vars, encoder_vars, parser_vars, compiler_vars >>

\* sub.next() gives None: the stream has ended and is drained, the loop ends
TaskExit ==
    /\ task = "running"
    /\ sub = << >>
    /\ ~stream_open
    /\ task' = "finished"
    /\ UNCHANGED << overflow_checks, sub, stream_open, delivered, outcomes,
                    decoder_vars, encoder_vars, parser_vars, compiler_vars >>

NextTask ==
    \/ \E value \in NotificationValues : Notify(value)
    \/ StreamEnd
    \/ TaskNext
    \/ TaskExit

SpecTask == InitTask /\ [][NextTask]_vars

Malformed(d) == Len(d) < 4 \/ Len(d) < BytesNeeded(d)

\* C10: the task decodes every notification exactly once and in arrival order
\* (the outcomes are those of the notifications taken so far, the rest are
\* still queued in order); an outcome depends on that notification's bytes
\* alone and is a frame or NotEnoughData; a failed decode neither ends the loop
\* nor changes a later outcome: the task runs while a notification is queued
\* and ends only when the stream has ended and is drained.
C10_EveryNotificationDecoded ==
    /\ Len(outcomes) <= Len(delivered)
    /\ sub = SubSeq(delivered, Len(outcomes) + 1, Len(delivered))
    /\ \A i \in 1 .. Len(outcomes) :
          /\ outcomes[i].tag \in {"Ok", "Err"}
          /\ (outcomes[i] = NotEnoughData) <=> Malformed(delivered[i])
          /\ outcomes[i] = decode_treadmill_data(delivered[i])
          /\ \A j \in 1 .. Len(outcomes) :
                delivered[i] = delivered[j] => outcomes[i] = outcomes[j]
    /\ sub # << >> => task = "running"
    /\ task # "running" => (task = "finished" /\ ~stream_open /\ sub = << >>)

\* C10 witness: a malformed notification came first, three more followed, all
\* four were decoded and the two well-formed ones gave frames.
C10_Witness ==
    /\ task = "finished"
    /\ Len(outcomes) = 4
    /\ delivered[1] = << 0, 0, 1 >> /\ outcomes[1] = NotEnoughData
    /\ outcomes[2].tag = "Ok"
    /\ outcomes[3] = NotEnoughData
    /\ outcomes[4].tag = "Ok" /\ outcomes[4].val.heart_rate = << 60 >>

====
